---- MODULE Spec2Model ----
(***************************************************************************)
(* A model of the ZJIT optimization core: type based alias analysis        *)
(* (zjit/src/tbaa.rs), the builtin annotation catalog and its specializers *)
(* (zjit/src/cruby_methods.rs), the frequency profile                      *)
(* (zjit/src/distribution.rs) and the dataflow bit set                     *)
(* (zjit/src/bitset.rs).                                                   *)
(***************************************************************************)
EXTENDS Integers, Sequences, FiniteSets, TLC

VARIABLES
    aliasCall,      \* last call of a pure tbaa function: arguments and result
    func,           \* the hir::Function the tracker analyzes, indexed by InsnId
    locations,      \* MemoryOpTracker.locations: InsnId -> MemoryLocation
    object_types,   \* MemoryOpTracker.object_types: InsnId -> Type
    trackerCall,    \* last MemoryOpTracker call: arguments and result
    buckets,        \* Distribution.buckets
    counts,         \* Distribution.counts
    other,          \* Distribution.other
    max_num_buckets,\* Distribution.max_num_buckets
    observed,       \* history: the items handed to observe, in order
    distCall,       \* last Distribution call: arguments and result
    fun,            \* the hir::Function a specializer rewrites, indexed by InsnId
    profiled_fixnum,\* the values the profile saw as fixnums only
    cfuncs,         \* Annotations.cfuncs: native function -> FnProperties
    inlineCall,     \* last specializer call: arguments, function before, result
    calls,          \* the number of specializer calls made on fun
    lookupCall,     \* last get_cfunc_properties call: method and result
    prevLookup,     \* the get_cfunc_properties call before it
    left_set,       \* a BitSet: storage words and num_bits
    right_set,      \* a second BitSet
    debug_assertions, \* whether the build keeps debug_assert!
    bitCall         \* last BitSet call: arguments, sets before, result or panic

aliasVars == <<aliasCall>>
trackerVars == <<func, locations, object_types, trackerCall>>
distVars == <<buckets, counts, other, max_num_buckets, observed, distCall>>

inlineVars == <<fun, profiled_fixnum, cfuncs, inlineCall, calls, lookupCall, prevLookup>>

bitVars == <<left_set, right_set, debug_assertions, bitCall>>

vars == <<aliasVars, trackerVars, distVars, inlineVars, bitVars>>

NoCall == [fn |-> "none"]

(***************************************************************************)
(* hir_type: a static type is the set of concrete runtime categories a     *)
(* value may belong to; the subtype relation is set inclusion.             *)
(***************************************************************************)
ImmediateCategories ==
    {"Fixnum", "Flonum", "StaticSymbol", "NilClass", "TrueClass", "FalseClass"}

HeapCategories ==
    {"Array", "Hash", "String", "Bignum", "HeapFloat", "DynamicSymbol",
     "Range", "Regexp", "Object"}

types_Array == {"Array"}
types_Hash == {"Hash"}
types_String == {"String"}
types_Fixnum == {"Fixnum"}
types_Integer == {"Fixnum", "Bignum"}
types_Float == {"Flonum", "HeapFloat"}
types_Symbol == {"StaticSymbol", "DynamicSymbol"}
types_Range == {"Range"}
types_Regexp == {"Regexp"}
types_HeapObject == HeapCategories
types_BasicObject == HeapCategories \cup ImmediateCategories
types_StringExact == {"String"}
types_NilClassExact == {"NilClass"}
types_BoolExact == {"TrueClass", "FalseClass"}
types_IntegerExact == {"Fixnum", "Bignum"}
types_Empty == {}

is_subtype(t, super) == t \subseteq super

union(t, u) == t \cup u

(***************************************************************************)
(* tbaa.rs: AliasClass                                                     *)
(***************************************************************************)
AliasClass ==
    {"ArrayIvar", "HashIvar", "StringIvar", "IntegerIvar", "FloatIvar",
     "SymbolIvar", "RangeIvar", "RegexpIvar", "OtherIvar", "GlobalVar",
     "LocalVar", "Unknown"}

\* AliasClass::may_alias with the Unknown arm left out
AliasClassMayAlias_NoUnknownArm(a, b) ==
    CASE a = b -> TRUE
      [] OTHER -> FALSE

\* AliasClass::may_alias: the match arms in order
AliasClassMayAlias(a, b) ==
    CASE a = b -> TRUE
      [] a = "Unknown" \/ b = "Unknown" -> TRUE
      [] OTHER -> FALSE

\* AliasClass::from_ivar_type: the first family the type is a subtype of
from_ivar_type(obj_type) ==
    IF is_subtype(obj_type, types_Array) THEN "ArrayIvar"
    ELSE IF is_subtype(obj_type, types_Hash) THEN "HashIvar"
    ELSE IF is_subtype(obj_type, types_String) THEN "StringIvar"
    ELSE IF is_subtype(obj_type, types_Integer) THEN "IntegerIvar"
    ELSE IF is_subtype(obj_type, types_Float) THEN "FloatIvar"
    ELSE IF is_subtype(obj_type, types_Symbol) THEN "SymbolIvar"
    ELSE IF is_subtype(obj_type, types_Range) THEN "RangeIvar"
    ELSE IF is_subtype(obj_type, types_Regexp) THEN "RegexpIvar"
    ELSE IF is_subtype(obj_type, types_HeapObject) THEN "OtherIvar"
    ELSE "Unknown"

(***************************************************************************)
(* tbaa.rs: MemoryLocation                                                 *)
(***************************************************************************)
InstanceVariable(obj, id, class) ==
    [kind |-> "InstanceVariable", obj |-> obj, id |-> id, class |-> class]

GlobalVariable(id) == [kind |-> "GlobalVariable", id |-> id]

LocalVariable(level, ep_offset) ==
    [kind |-> "LocalVariable", level |-> level, ep_offset |-> ep_offset]

\* MemoryLocation::may_alias with the local arm comparing the level only
MemoryLocationMayAlias_LevelOnly(a, b) ==
    CASE a = b -> TRUE
      [] a.kind = "InstanceVariable" /\ b.kind = "InstanceVariable" ->
            IF a.obj # b.obj
            THEN AliasClassMayAlias(a.class, b.class)
            ELSE \/ a.id = b.id
                 \/ AliasClassMayAlias(a.class, "Unknown")
                 \/ AliasClassMayAlias(b.class, "Unknown")
      [] a.kind = "GlobalVariable" /\ b.kind = "GlobalVariable" -> a.id = b.id
      [] a.kind = "LocalVariable" /\ b.kind = "LocalVariable" ->
            a.level = b.level
      [] OTHER -> FALSE

\* MemoryLocation::may_alias: the match arms in order
MemoryLocationMayAlias(a, b) ==
    CASE a = b -> TRUE
      [] a.kind = "InstanceVariable" /\ b.kind = "InstanceVariable" ->
            IF a.obj # b.obj
            THEN AliasClassMayAlias(a.class, b.class)
            ELSE \/ a.id = b.id
                 \/ AliasClassMayAlias(a.class, "Unknown")
                 \/ AliasClassMayAlias(b.class, "Unknown")
      [] a.kind = "GlobalVariable" /\ b.kind = "GlobalVariable" -> a.id = b.id
      [] a.kind = "LocalVariable" /\ b.kind = "LocalVariable" ->
            a.level = b.level /\ a.ep_offset = b.ep_offset
      [] OTHER -> FALSE

(***************************************************************************)
(* hir: the instructions the tracker reads.  An InsnId is an index into    *)
(* the function's instructions; InsnId i is func[i + 1].                    *)
(***************************************************************************)
Param(ty) == [op |-> "Param", ty |-> ty]
GetIvar(self_val, id) == [op |-> "GetIvar", self_val |-> self_val, id |-> id]
SetIvar(self_val, id) == [op |-> "SetIvar", self_val |-> self_val, id |-> id]
GetGlobal(id) == [op |-> "GetGlobal", id |-> id]
SetGlobal(id) == [op |-> "SetGlobal", id |-> id]
GetLocal(level, ep_offset) ==
    [op |-> "GetLocal", level |-> level, ep_offset |-> ep_offset]
SetLocal(level, ep_offset) ==
    [op |-> "SetLocal", level |-> level, ep_offset |-> ep_offset]

find(f, insn_id) == f[insn_id + 1]

InsnIdsOf(f) == 0 .. (Len(f) - 1)

GuardType(val, guard_type, state) ==
    [op |-> "GuardType", val |-> val, guard_type |-> guard_type, state |-> state]
BOPRedefined(klass, bop) == [klass |-> klass, bop |-> bop]
PatchPoint(invariant) == [op |-> "PatchPoint", invariant |-> invariant]
FixnumAdd(left, right, state) ==
    [op |-> "FixnumAdd", left |-> left, right |-> right, state |-> state]
FixnumSub(left, right, state) ==
    [op |-> "FixnumSub", left |-> left, right |-> right, state |-> state]
FixnumMult(left, right, state) ==
    [op |-> "FixnumMult", left |-> left, right |-> right, state |-> state]
FixnumDiv(left, right, state) ==
    [op |-> "FixnumDiv", left |-> left, right |-> right, state |-> state]
FixnumMod(left, right, state) ==
    [op |-> "FixnumMod", left |-> left, right |-> right, state |-> state]
FixnumEq(left, right) == [op |-> "FixnumEq", left |-> left, right |-> right]
FixnumNeq(left, right) == [op |-> "FixnumNeq", left |-> left, right |-> right]
FixnumLt(left, right) == [op |-> "FixnumLt", left |-> left, right |-> right]
FixnumLe(left, right) == [op |-> "FixnumLe", left |-> left, right |-> right]
FixnumGt(left, right) == [op |-> "FixnumGt", left |-> left, right |-> right]
FixnumGe(left, right) == [op |-> "FixnumGe", left |-> left, right |-> right]

FixnumArithmetic == {"FixnumAdd", "FixnumSub", "FixnumMult", "FixnumDiv", "FixnumMod"}
FixnumComparison ==
    {"FixnumEq", "FixnumNeq", "FixnumLt", "FixnumLe", "FixnumGt", "FixnumGe"}

\* Function::type_of: the type oracle's answer for a value
RECURSIVE type_of(_, _)
type_of(f, insn_id) ==
    LET insn == find(f, insn_id) IN
    CASE insn.op = "Param" -> insn.ty
      [] insn.op = "GuardType" -> type_of(f, insn.val) \cap insn.guard_type
      [] insn.op \in FixnumArithmetic -> types_Fixnum
      [] insn.op \in FixnumComparison -> types_BoolExact
      [] insn.op = "PatchPoint" -> types_Empty
      [] OTHER -> types_BasicObject

\* Function::is_a
is_a(f, val, ty) == is_subtype(type_of(f, val), ty)

\* Function::push_insn: the instruction goes to the end of the block and
\* its InsnId is returned
push_insn(f, insn) == [fun |-> Append(f, insn), ret |-> Len(f)]

(***************************************************************************)
(* tbaa.rs: MemoryOpTracker                                                *)
(***************************************************************************)
Insert(map, key, value) ==
    [k \in DOMAIN map \cup {key} |-> IF k = key THEN value ELSE map[k]]

NewTracker == [locations |-> <<>>, object_types |-> <<>>]

\* MemoryOpTracker::analyze_insn
analyze_insn(tracker, f, insn_id) ==
    LET insn == find(f, insn_id) IN
    CASE insn.op \in {"GetIvar", "SetIvar"} ->
            LET obj_type == type_of(f, insn.self_val)
                alias_class == from_ivar_type(obj_type)
            IN  [locations |->
                    Insert(tracker.locations, insn_id,
                           InstanceVariable(insn.self_val, insn.id, alias_class)),
                 object_types |->
                    Insert(tracker.object_types, insn_id, obj_type)]
      [] insn.op \in {"GetGlobal", "SetGlobal"} ->
            [tracker EXCEPT !.locations =
                Insert(tracker.locations, insn_id, GlobalVariable(insn.id))]
      [] insn.op \in {"GetLocal", "SetLocal"} ->
            [tracker EXCEPT !.locations =
                Insert(tracker.locations, insn_id,
                       LocalVariable(insn.level, insn.ep_offset))]
      [] OTHER -> tracker

\* MemoryOpTracker::analyze: every instruction of the function, in order,
\* starting at InsnId `from`
RECURSIVE analyze_from(_, _, _)
analyze_from(tracker, f, from) ==
    IF from >= Len(f) THEN tracker
    ELSE analyze_from(analyze_insn(tracker, f, from), f, from + 1)

analyze(tracker, f) == analyze_from(tracker, f, 0)

None == [some |-> FALSE]
Some(v) == [some |-> TRUE, value |-> v]

\* MemoryOpTracker::may_alias answering false when a location is missing
TrackerMayAlias_MissingIsFalse(locs, insn1, insn2) ==
    IF insn1 \in DOMAIN locs /\ insn2 \in DOMAIN locs
    THEN MemoryLocationMayAlias(locs[insn1], locs[insn2])
    ELSE FALSE

\* MemoryOpTracker::may_alias
TrackerMayAlias(locs, insn1, insn2) ==
    IF insn1 \in DOMAIN locs /\ insn2 \in DOMAIN locs
    THEN MemoryLocationMayAlias(locs[insn1], locs[insn2])
    ELSE TRUE

(***************************************************************************)
(* The calls of the pure alias functions, on bounded inputs.               *)
(***************************************************************************)
TypeDomain ==
    {types_Array, types_Hash, types_String, types_Fixnum, types_Integer,
     types_Float, types_Symbol, types_Range, types_Regexp, types_HeapObject,
     types_BasicObject, union(types_Array, types_Hash), {"Object"},
     {"NilClass"}}

ObjDomain == {0, 1}
IvarIdDomain == {1, 2}
GlobalIdDomain == {1, 2}
LevelDomain == {0, 1}
OffsetDomain == {1, 2}

LocationDomain ==
    {InstanceVariable(o, i, c) : o \in ObjDomain, i \in IvarIdDomain, c \in AliasClass}
    \cup {GlobalVariable(g) : g \in GlobalIdDomain}
    \cup {LocalVariable(l, o) : l \in LevelDomain, o \in OffsetDomain}

BitIdle ==
    /\ left_set = [storage |-> <<{}>>, num_bits |-> 0]
    /\ right_set = [storage |-> <<{}>>, num_bits |-> 0]
    /\ debug_assertions = TRUE
    /\ bitCall = NoCall

InlineIdle ==
    /\ fun = <<>>
    /\ profiled_fixnum = {}
    /\ cfuncs = <<>>
    /\ inlineCall = NoCall
    /\ calls = 0
    /\ lookupCall = NoCall
    /\ prevLookup = NoCall

DistIdle ==
    /\ buckets = <<>>
    /\ counts = <<>>
    /\ other = 0
    /\ max_num_buckets = 0
    /\ observed = <<>>
    /\ distCall = NoCall

TrackerIdle ==
    /\ func = <<>>
    /\ locations = <<>>
    /\ object_types = <<>>
    /\ trackerCall = NoCall

AliasInit ==
    /\ aliasCall = NoCall
    /\ TrackerIdle
    /\ DistIdle
    /\ InlineIdle
    /\ BitIdle

ClassMayAliasCall ==
    \E a \in AliasClass, b \in AliasClass :
        /\ aliasCall' = [fn |-> "AliasClass::may_alias", a |-> a, b |-> b,
                         ret |-> AliasClassMayAlias(a, b)]
        /\ UNCHANGED <<trackerVars, distVars, inlineVars, bitVars>>

FromIvarTypeCall ==
    \E t \in TypeDomain :
        /\ aliasCall' = [fn |-> "AliasClass::from_ivar_type", a |-> t,
                         ret |-> from_ivar_type(t)]
        /\ UNCHANGED <<trackerVars, distVars, inlineVars, bitVars>>

LocationMayAliasCall ==
    \E a \in LocationDomain, b \in LocationDomain :
        /\ aliasCall' = [fn |-> "MemoryLocation::may_alias", a |-> a, b |-> b,
                         ret |-> MemoryLocationMayAlias(a, b)]
        /\ UNCHANGED <<trackerVars, distVars, inlineVars, bitVars>>

AliasNext == ClassMayAliasCall \/ FromIvarTypeCall \/ LocationMayAliasCall

SpecAlias == AliasInit /\ [][AliasNext]_vars

(***************************************************************************)
(* The tracker over one function: analyze, then alias queries.             *)
(***************************************************************************)
MaxOps == 2

ReceiverTypes == {types_Array, types_HeapObject, types_BasicObject}

\* the function's parameters, InsnId 0 and 1: the receivers of its field
\* accesses, whose static types the oracle knows
ParamsDomain == {<<Param(t0), Param(t1)>> : t0 \in ReceiverTypes, t1 \in ReceiverTypes}

MemoryOpDomain ==
    {GetIvar(r, i) : r \in ObjDomain, i \in IvarIdDomain}
    \cup {SetIvar(0, 1)}
    \cup {GetGlobal(1), SetGlobal(2)}
    \cup {GetLocal(0, 1), GetLocal(1, 1), SetLocal(0, 2)}

FunctionDomain ==
    {params \o ops :
        params \in ParamsDomain,
        ops \in UNION {[1 .. n -> MemoryOpDomain] : n \in 0 .. MaxOps}}

InsnIdDomain == 0 .. (MaxOps + 1)

TrackerInit ==
    /\ aliasCall = NoCall
    /\ func \in FunctionDomain
    /\ locations = NewTracker.locations
    /\ object_types = NewTracker.object_types
    /\ trackerCall = NoCall
    /\ DistIdle
    /\ InlineIdle
    /\ BitIdle

Analyze ==
    LET tracker == analyze([locations |-> locations,
                            object_types |-> object_types], func)
    IN  /\ locations' = tracker.locations
        /\ object_types' = tracker.object_types
        /\ trackerCall' = [fn |-> "analyze"]
        /\ UNCHANGED <<aliasVars, func, distVars, inlineVars, bitVars>>

MayAlias ==
    \E insn1 \in InsnIdDomain, insn2 \in InsnIdDomain :
        /\ trackerCall' = [fn |-> "may_alias", insn1 |-> insn1, insn2 |-> insn2,
                           ret |-> TrackerMayAlias(locations, insn1, insn2)]
        /\ UNCHANGED <<aliasVars, func, locations, object_types, distVars, inlineVars, bitVars>>

TrackerNext == Analyze \/ MayAlias

SpecTracker == TrackerInit /\ [][TrackerNext]_vars

(***************************************************************************)
(* Alias analysis: properties                                              *)
(***************************************************************************)
IsLocCall == aliasCall.fn = "MemoryLocation::may_alias"
IsClassCall == aliasCall.fn = "AliasClass::may_alias"
IsIvar(loc) == loc.kind = "InstanceVariable"

\* C1: two field accesses on the identical receiver with different field
\* ids do not alias unless one of the two classes is Unknown.
C1_SameReceiverDifferentIvarNoAlias ==
    ( /\ IsLocCall
      /\ IsIvar(aliasCall.a) /\ IsIvar(aliasCall.b)
      /\ aliasCall.a.obj = aliasCall.b.obj
      /\ aliasCall.a.id # aliasCall.b.id
      /\ aliasCall.a.class # "Unknown"
      /\ aliasCall.b.class # "Unknown" )
    => aliasCall.ret = FALSE

\* C2: two recorded field accesses whose receivers' static types share a
\* concrete category are in classes that may alias.
C2_ClassesSoundForOverlappingTypes ==
    \A i \in DOMAIN locations, j \in DOMAIN locations :
        ( /\ IsIvar(locations[i]) /\ IsIvar(locations[j])
          /\ type_of(func, locations[i].obj) \cap type_of(func, locations[j].obj) # {} )
        => AliasClassMayAlias(locations[i].class, locations[j].class)

\* C7: AliasClass::may_alias is true exactly when the classes are equal or
\* one of them is Unknown; it gives the same answer with its arguments
\* swapped.
C7_ClassMayAliasTable ==
    IsClassCall =>
        /\ aliasCall.ret =
              ( \/ aliasCall.a = aliasCall.b
                \/ aliasCall.a = "Unknown"
                \/ aliasCall.b = "Unknown" )
        /\ aliasCall.ret = AliasClassMayAlias(aliasCall.b, aliasCall.a)

\* C7 witness: two distinct classes, neither Unknown, answered false
C7_Witness ==
    /\ IsClassCall
    /\ aliasCall.a # aliasCall.b
    /\ aliasCall.a # "Unknown" /\ aliasCall.b # "Unknown"
    /\ aliasCall.ret = FALSE

\* C8: when at least one location is not a field access, may_alias is true
\* exactly when both are globals with equal ids or both are locals with
\* equal level and offset; locations of different kinds never alias.
C8_NonIvarAliasIffEqual ==
    ( IsLocCall /\ (~IsIvar(aliasCall.a) \/ ~IsIvar(aliasCall.b)) ) =>
        LET a == aliasCall.a
            b == aliasCall.b
        IN  /\ aliasCall.ret = (a = b)
            /\ aliasCall.ret =
                  CASE a.kind = "GlobalVariable" /\ b.kind = "GlobalVariable" ->
                          a.id = b.id
                    [] a.kind = "LocalVariable" /\ b.kind = "LocalVariable" ->
                          a.level = b.level /\ a.ep_offset = b.ep_offset
                    [] OTHER -> FALSE

\* C8 witness: two locals at the same level and different offsets
C8_Witness ==
    /\ IsLocCall
    /\ aliasCall.a.kind = "LocalVariable" /\ aliasCall.b.kind = "LocalVariable"
    /\ aliasCall.a.level = aliasCall.b.level
    /\ aliasCall.a.ep_offset # aliasCall.b.ep_offset
    /\ aliasCall.ret = FALSE

\* C9: the tracker answers true when either instruction has no recorded
\* location, and otherwise what MemoryLocation::may_alias answers for the
\* two recorded locations.
C9_TrackerMayAlias ==
    trackerCall.fn = "may_alias" =>
        LET i == trackerCall.insn1
            j == trackerCall.insn2
        IN  IF i \in DOMAIN locations /\ j \in DOMAIN locations
            THEN trackerCall.ret = MemoryLocationMayAlias(locations[i], locations[j])
            ELSE trackerCall.ret = TRUE

\* C9 witness: after analysis, a query of a recorded and an unrecorded
\* instruction
C9_Witness ==
    /\ trackerCall.fn = "may_alias"
    /\ trackerCall.insn1 \in DOMAIN locations
    /\ trackerCall.insn2 \notin DOMAIN locations
    /\ trackerCall.insn2 < Len(func)
    /\ trackerCall.ret = TRUE

(***************************************************************************)
(* distribution.rs: Distribution                                           *)
(***************************************************************************)
MaxBuckets == 2
MaxObservations == 5

ItemDomain == {10, 11, 12}

\* Iterator::max_by over the (bucket, count) pairs from index k on, `best`
\* being the index kept so far: the kept pair gives way unless it compares
\* Greater, so of several equal maxima the last one is returned.
RECURSIVE max_by(_, _, _)
max_by(cs, best, k) ==
    IF k > Len(cs) THEN best
    ELSE max_by(cs, IF cs[best] > cs[k] THEN best ELSE k, k + 1)

\* Distribution::most_common keeping the earlier of two equal counts
most_common_KeepsFirst(bs, cs) ==
    IF Len(bs) = 0 THEN None
    ELSE Some(bs[CHOOSE i \in 1 .. Len(cs) :
                    /\ \A j \in 1 .. Len(cs) : cs[j] <= cs[i]
                    /\ \A j \in 1 .. (i - 1) : cs[j] < cs[i]])

\* Distribution::most_common giving up once the overflow counter exceeds
\* every bucket's count.
most_common_NoneWhenOtherDominates(bs, cs) ==
    IF Len(bs) = 0 THEN None
    ELSE LET best == max_by(cs, 1, 2)
         IN  IF other > cs[best] THEN None ELSE Some(bs[best])

\* Distribution::most_common
most_common(bs, cs) ==
    IF Len(bs) = 0 \/ Len(cs) = 0 THEN None
    ELSE Some(bs[max_by(cs, 1, 2)])

DistInit ==
    /\ aliasCall = NoCall
    /\ TrackerIdle
    /\ InlineIdle
    /\ BitIdle
    /\ buckets = <<>>
    /\ counts = <<>>
    /\ other = 0
    /\ max_num_buckets \in 0 .. MaxBuckets
    /\ observed = <<>>
    /\ distCall = NoCall

Sum(cs) == LET RECURSIVE S(_)
               S(k) == IF k = 0 THEN 0 ELSE cs[k] + S(k - 1)
           IN  S(Len(cs))

\* Distribution::observe taking over the last bucket for a new item once
\* every bucket is in use.
Observe_ReplacesLastWhenFull ==
    \E item \in ItemDomain :
        /\ Sum(counts) + other < MaxObservations
        /\ Len(buckets) = Len(counts)
        /\ IF \E k \in 1 .. Len(buckets) : buckets[k] = item
           THEN LET k == CHOOSE i \in 1 .. Len(buckets) : buckets[i] = item
                IN  /\ counts' = [counts EXCEPT ![k] = @ + 1]
                    /\ UNCHANGED <<buckets, other>>
           ELSE IF Len(buckets) < max_num_buckets
           THEN /\ buckets' = Append(buckets, item)
                /\ counts' = Append(counts, 1)
                /\ UNCHANGED other
           ELSE IF Len(buckets) > 0
           THEN /\ buckets' = [buckets EXCEPT ![Len(buckets)] = item]
                /\ counts' = [counts EXCEPT ![Len(counts)] = 1]
                /\ other' = other + 1
           ELSE /\ other' = other + 1
                /\ UNCHANGED <<buckets, counts>>
        /\ observed' = Append(observed, item)
        /\ distCall' = [fn |-> "observe", item |-> item]
        /\ UNCHANGED <<aliasVars, trackerVars, inlineVars, bitVars, max_num_buckets>>

\* Distribution::observe
Observe ==
    \E item \in ItemDomain :
        /\ Sum(counts) + other < MaxObservations
        /\ Len(buckets) = Len(counts)
        /\ IF \E k \in 1 .. Len(buckets) : buckets[k] = item
           THEN LET k == CHOOSE i \in 1 .. Len(buckets) :
                            /\ buckets[i] = item
                            /\ \A j \in 1 .. (i - 1) : buckets[j] # item
                IN  /\ counts' = [counts EXCEPT ![k] = @ + 1]
                    /\ UNCHANGED <<buckets, other>>
           ELSE IF Len(buckets) < max_num_buckets
           THEN /\ buckets' = Append(buckets, item)
                /\ counts' = Append(counts, 1)
                /\ UNCHANGED other
           ELSE /\ other' = other + 1
                /\ UNCHANGED <<buckets, counts>>
        /\ observed' = Append(observed, item)
        /\ distCall' = [fn |-> "observe", item |-> item]
        /\ UNCHANGED <<aliasVars, trackerVars, inlineVars, bitVars, max_num_buckets>>

MostCommon ==
    /\ distCall' = [fn |-> "most_common", ret |-> most_common(buckets, counts),
                     before |-> <<buckets, counts, other, max_num_buckets>>]
    /\ UNCHANGED <<aliasVars, trackerVars, inlineVars, bitVars, buckets, counts, other, max_num_buckets, observed>>

DistNext == Observe \/ MostCommon

SpecDist == DistInit /\ [][DistNext]_vars

(***************************************************************************)
(* Frequency profile: properties                                           *)
(***************************************************************************)
IsHighest(k) == \A j \in 1 .. Len(counts) : counts[j] <= counts[k]

\* C3 as stated: with at least one bucket, most_common returns a bucket of
\* the highest count, the first created one among several.
C3_MostCommonFirstOnTies ==
    (distCall.fn = "most_common" /\ Len(buckets) > 0) =>
        \E k \in 1 .. Len(buckets) :
            /\ distCall.ret = Some(buckets[k])
            /\ IsHighest(k)
            /\ \A j \in 1 .. (k - 1) : ~IsHighest(j)

\* C3 as amended: with at least one bucket, most_common returns a bucket of
\* the highest count, the last created one among several.
C3_MostCommonLastOnTies ==
    (distCall.fn = "most_common" /\ Len(buckets) > 0) =>
        \E k \in 1 .. Len(buckets) :
            /\ distCall.ret = Some(buckets[k])
            /\ IsHighest(k)
            /\ \A j \in (k + 1) .. Len(buckets) : ~IsHighest(j)

\* C3 witness: most_common called with two buckets sharing the highest count
C3_Witness ==
    /\ distCall.fn = "most_common"
    /\ Len(buckets) >= 2
    /\ \E i \in 1 .. Len(buckets), j \in 1 .. Len(buckets) :
            i < j /\ IsHighest(i) /\ IsHighest(j)
    /\ other > 0

(***************************************************************************)
(* cruby_methods.rs: the specializers.  Each takes the function, the       *)
(* deoptimization anchor `state` and the operands, and gives the function  *)
(* as it leaves it and the optional replacement value.                     *)
(***************************************************************************)
\* Function::likely_is_fixnum: the static type or the profile says fixnum
likely_is_fixnum(f, val, profile) == is_a(f, val, types_Fixnum) \/ val \in profile

\* Function::arguments_likely_fixnums
arguments_likely_fixnums(f, left, right, state, profile) ==
    likely_is_fixnum(f, left, profile) /\ likely_is_fixnum(f, right, profile)

\* coerce_to_fixnum handing the value back without a guard
coerce_to_fixnum_NoGuard(f, val, state) == [fun |-> f, ret |-> val]

\* Function::coerce_to_fixnum
coerce_to_fixnum(f, val, state) ==
    IF is_a(f, val, types_Fixnum) THEN [fun |-> f, ret |-> val]
    ELSE push_insn(f, GuardType(val, types_Fixnum, state))

Decline(f) == [fun |-> f, ret |-> None]

no_inline(f, state, args, profile) == Decline(f)

kernel_itself(f, state, args, profile) ==
    IF Len(args) # 1 THEN Decline(f)
    ELSE [fun |-> f, ret |-> Some(args[1])]

fixnum_add(f, state, args, profile) ==
    IF Len(args) # 2 THEN Decline(f)
    ELSE IF ~arguments_likely_fixnums(f, args[1], args[2], state, profile) THEN Decline(f)
    ELSE LET left == coerce_to_fixnum(f, args[1], state)
             right == coerce_to_fixnum(left.fun, args[2], state)
             insn == push_insn(right.fun, FixnumAdd(left.ret, right.ret, state))
         IN  [fun |-> insn.fun, ret |-> Some(insn.ret)]

fixnum_sub(f, state, args, profile) ==
    IF Len(args) # 2 THEN Decline(f)
    ELSE IF ~arguments_likely_fixnums(f, args[1], args[2], state, profile) THEN Decline(f)
    ELSE LET left == coerce_to_fixnum(f, args[1], state)
             right == coerce_to_fixnum(left.fun, args[2], state)
             insn == push_insn(right.fun, FixnumSub(left.ret, right.ret, state))
         IN  [fun |-> insn.fun, ret |-> Some(insn.ret)]

fixnum_mul(f, state, args, profile) ==
    IF Len(args) # 2 THEN Decline(f)
    ELSE IF ~arguments_likely_fixnums(f, args[1], args[2], state, profile) THEN Decline(f)
    ELSE LET left == coerce_to_fixnum(f, args[1], state)
             right == coerce_to_fixnum(left.fun, args[2], state)
             insn == push_insn(right.fun, FixnumMult(left.ret, right.ret, state))
         IN  [fun |-> insn.fun, ret |-> Some(insn.ret)]

fixnum_div(f, state, args, profile) ==
    IF Len(args) # 2 THEN Decline(f)
    ELSE IF ~arguments_likely_fixnums(f, args[1], args[2], state, profile) THEN Decline(f)
    ELSE LET left == coerce_to_fixnum(f, args[1], state)
             right == coerce_to_fixnum(left.fun, args[2], state)
             insn == push_insn(right.fun, FixnumDiv(left.ret, right.ret, state))
         IN  [fun |-> insn.fun, ret |-> Some(insn.ret)]

fixnum_mod(f, state, args, profile) ==
    IF Len(args) # 2 THEN Decline(f)
    ELSE IF ~arguments_likely_fixnums(f, args[1], args[2], state, profile) THEN Decline(f)
    ELSE LET left == coerce_to_fixnum(f, args[1], state)
             right == coerce_to_fixnum(left.fun, args[2], state)
             insn == push_insn(right.fun, FixnumMod(left.ret, right.ret, state))
         IN  [fun |-> insn.fun, ret |-> Some(insn.ret)]

fixnum_eq(f, state, args, profile) ==
    IF Len(args) # 2 THEN Decline(f)
    ELSE IF ~arguments_likely_fixnums(f, args[1], args[2], state, profile) THEN Decline(f)
    ELSE LET left == coerce_to_fixnum(f, args[1], state)
             right == coerce_to_fixnum(left.fun, args[2], state)
             insn == push_insn(right.fun, FixnumEq(left.ret, right.ret))
         IN  [fun |-> insn.fun, ret |-> Some(insn.ret)]

\* basicobject_neq placing its patch point before the fixnum test
basicobject_neq_PatchPointFirst(f, state, args, profile) ==
    IF Len(args) # 2 THEN Decline(f)
    ELSE LET patch == push_insn(f, PatchPoint(BOPRedefined("INTEGER_REDEFINED_OP_FLAG", "BOP_EQ")))
         IN  IF ~arguments_likely_fixnums(f, args[1], args[2], state, profile)
             THEN Decline(patch.fun)
             ELSE LET left == coerce_to_fixnum(patch.fun, args[1], state)
                      right == coerce_to_fixnum(left.fun, args[2], state)
                      insn == push_insn(right.fun, FixnumNeq(left.ret, right.ret))
                  IN  [fun |-> insn.fun, ret |-> Some(insn.ret)]

basicobject_neq(f, state, args, profile) ==
    IF Len(args) # 2 THEN Decline(f)
    ELSE IF ~arguments_likely_fixnums(f, args[1], args[2], state, profile) THEN Decline(f)
    ELSE LET patch == push_insn(f, PatchPoint(BOPRedefined("INTEGER_REDEFINED_OP_FLAG", "BOP_EQ")))
             left == coerce_to_fixnum(patch.fun, args[1], state)
             right == coerce_to_fixnum(left.fun, args[2], state)
             insn == push_insn(right.fun, FixnumNeq(left.ret, right.ret))
         IN  [fun |-> insn.fun, ret |-> Some(insn.ret)]

fixnum_lt(f, state, args, profile) ==
    IF Len(args) # 2 THEN Decline(f)
    ELSE IF ~arguments_likely_fixnums(f, args[1], args[2], state, profile) THEN Decline(f)
    ELSE LET left == coerce_to_fixnum(f, args[1], state)
             right == coerce_to_fixnum(left.fun, args[2], state)
             insn == push_insn(right.fun, FixnumLt(left.ret, right.ret))
         IN  [fun |-> insn.fun, ret |-> Some(insn.ret)]

fixnum_le(f, state, args, profile) ==
    IF Len(args) # 2 THEN Decline(f)
    ELSE IF ~arguments_likely_fixnums(f, args[1], args[2], state, profile) THEN Decline(f)
    ELSE LET left == coerce_to_fixnum(f, args[1], state)
             right == coerce_to_fixnum(left.fun, args[2], state)
             insn == push_insn(right.fun, FixnumLe(left.ret, right.ret))
         IN  [fun |-> insn.fun, ret |-> Some(insn.ret)]

fixnum_gt(f, state, args, profile) ==
    IF Len(args) # 2 THEN Decline(f)
    ELSE IF ~arguments_likely_fixnums(f, args[1], args[2], state, profile) THEN Decline(f)
    ELSE LET left == coerce_to_fixnum(f, args[1], state)
             right == coerce_to_fixnum(left.fun, args[2], state)
             insn == push_insn(right.fun, FixnumGt(left.ret, right.ret))
         IN  [fun |-> insn.fun, ret |-> Some(insn.ret)]

fixnum_ge(f, state, args, profile) ==
    IF Len(args) # 2 THEN Decline(f)
    ELSE IF ~arguments_likely_fixnums(f, args[1], args[2], state, profile) THEN Decline(f)
    ELSE LET left == coerce_to_fixnum(f, args[1], state)
             right == coerce_to_fixnum(left.fun, args[2], state)
             insn == push_insn(right.fun, FixnumGe(left.ret, right.ret))
         IN  [fun |-> insn.fun, ret |-> Some(insn.ret)]

Specializers ==
    {"no_inline", "kernel_itself", "fixnum_add", "fixnum_sub", "fixnum_mul",
     "fixnum_div", "fixnum_mod", "fixnum_eq", "basicobject_neq", "fixnum_lt",
     "fixnum_le", "fixnum_gt", "fixnum_ge"}

\* FnProperties.inline: the call through the stored function reference
inline(name, f, state, args, profile) ==
    CASE name = "no_inline" -> no_inline(f, state, args, profile)
      [] name = "kernel_itself" -> kernel_itself(f, state, args, profile)
      [] name = "fixnum_add" -> fixnum_add(f, state, args, profile)
      [] name = "fixnum_sub" -> fixnum_sub(f, state, args, profile)
      [] name = "fixnum_mul" -> fixnum_mul(f, state, args, profile)
      [] name = "fixnum_div" -> fixnum_div(f, state, args, profile)
      [] name = "fixnum_mod" -> fixnum_mod(f, state, args, profile)
      [] name = "fixnum_eq" -> fixnum_eq(f, state, args, profile)
      [] name = "basicobject_neq" -> basicobject_neq(f, state, args, profile)
      [] name = "fixnum_lt" -> fixnum_lt(f, state, args, profile)
      [] name = "fixnum_le" -> fixnum_le(f, state, args, profile)
      [] name = "fixnum_gt" -> fixnum_gt(f, state, args, profile)
      [] name = "fixnum_ge" -> fixnum_ge(f, state, args, profile)

(***************************************************************************)
(* cruby_methods.rs: the annotation catalog                                *)
(***************************************************************************)
\* The native function behind a method, as the runtime's method table has
\* it: Array#size is an alias of Array#length and shares its function.
cfunc_of(class, method_name) ==
    CASE class = "Kernel" /\ method_name = "itself" -> "rb_obj_itself"
      [] class = "String" /\ method_name = "bytesize" -> "rb_str_bytesize"
      [] class = "Module" /\ method_name = "name" -> "rb_mod_name"
      [] class = "Module" /\ method_name = "===" -> "rb_mod_eqq"
      [] class = "Array" /\ method_name = "length" -> "rb_ary_length"
      [] class = "Array" /\ method_name = "size" -> "rb_ary_length"
      [] class = "BasicObject" /\ method_name = "!=" -> "rb_obj_not_equal"
      [] class = "Integer" /\ method_name = "+" -> "rb_int_plus"
      [] class = "Integer" /\ method_name = "-" -> "rb_int_minus"
      [] class = "Integer" /\ method_name = "*" -> "rb_int_mul"
      [] class = "Integer" /\ method_name = "/" -> "rb_int_div"
      [] class = "Integer" /\ method_name = "%" -> "rb_int_modulo"
      [] class = "Integer" /\ method_name = "==" -> "rb_int_equal"
      [] class = "Integer" /\ method_name = "<" -> "int_lt"
      [] class = "Integer" /\ method_name = "<=" -> "int_le"
      [] class = "Integer" /\ method_name = ">" -> "rb_int_gt"
      [] class = "Integer" /\ method_name = ">=" -> "rb_int_ge"

\* annotate_c_method
annotate_c_method(props_map, class, method_name, props) ==
    Insert(props_map, cfunc_of(class, method_name), props)

\* the annotate! macro: the properties named are set, the others are false
FnProperties(return_type, inline_fn, properties) ==
    [no_gc |-> "no_gc" \in properties,
     leaf |-> "leaf" \in properties,
     elidable |-> "elidable" \in properties,
     return_type |-> return_type,
     inline |-> inline_fn]

Annotation(class, method_name, return_type, inline_fn, properties) ==
    [class |-> class, method_name |-> method_name,
     props |-> FnProperties(return_type, inline_fn, properties)]

\* the annotate! lines of init, in order
Catalog ==
    << Annotation("Kernel", "itself", types_BasicObject, "kernel_itself", {"no_gc", "leaf"}),
       Annotation("String", "bytesize", types_Fixnum, "no_inline", {"no_gc", "leaf"}),
       Annotation("Module", "name", union(types_StringExact, types_NilClassExact), "no_inline", {"no_gc", "leaf"}),
       Annotation("Module", "===", types_BoolExact, "no_inline", {"no_gc", "leaf"}),
       Annotation("Array", "length", types_Fixnum, "no_inline", {"no_gc", "leaf", "elidable"}),
       Annotation("Array", "size", types_Fixnum, "no_inline", {"no_gc", "leaf", "elidable"}),
       Annotation("BasicObject", "!=", types_BoolExact, "basicobject_neq", {}),
       Annotation("Integer", "+", types_IntegerExact, "fixnum_add", {}),
       Annotation("Integer", "-", types_IntegerExact, "fixnum_sub", {}),
       Annotation("Integer", "*", types_IntegerExact, "fixnum_mul", {}),
       Annotation("Integer", "/", types_IntegerExact, "fixnum_div", {}),
       Annotation("Integer", "%", types_IntegerExact, "fixnum_mod", {}),
       Annotation("Integer", "==", types_BoolExact, "fixnum_gt", {}),
       Annotation("Integer", "<", types_BoolExact, "fixnum_lt", {}),
       Annotation("Integer", "<=", types_BoolExact, "fixnum_le", {}),
       Annotation("Integer", ">", types_BoolExact, "fixnum_gt", {}),
       Annotation("Integer", ">=", types_BoolExact, "fixnum_ge", {}) >>

\* init: the catalog's lines registered one after the other
RECURSIVE init_from(_, _)
init_from(props_map, k) ==
    IF k > Len(Catalog) THEN props_map
    ELSE init_from(annotate_c_method(props_map, Catalog[k].class,
                                     Catalog[k].method_name, Catalog[k].props),
                   k + 1)

init == init_from(<<>>, 1)

(***************************************************************************)
(* One call site: a function holding the operands, and specializer calls   *)
(* on it.                                                                  *)
(***************************************************************************)
MaxCalls == 1

OperandTypes == {types_Fixnum, types_BasicObject}

Anchors == {"state_a", "state_b"}

OperandsDomain == {<<Param(t0), Param(t1)>> : t0 \in OperandTypes, t1 \in OperandTypes}

\* operand lists of every length up to two, and of length three with one
\* value repeated
ArgsDomain(f) ==
    UNION {[1 .. n -> InsnIdsOf(f)] : n \in {0, 1, 2}}
    \cup {<<a, a, a>> : a \in InsnIdsOf(f)}

InlineInit ==
    /\ aliasCall = NoCall
    /\ TrackerIdle
    /\ DistIdle
    /\ BitIdle
    /\ fun \in OperandsDomain
    /\ profiled_fixnum \in SUBSET ObjDomain
    /\ cfuncs = init
    /\ inlineCall = NoCall
    /\ calls = 0
    /\ lookupCall = NoCall
    /\ prevLookup = NoCall

\* a specializer called on the function
Inline ==
    \E name \in Specializers, state \in Anchors, args \in ArgsDomain(fun) :
        LET result == inline(name, fun, state, args, profiled_fixnum) IN
        /\ calls < MaxCalls
        /\ fun' = result.fun
        /\ inlineCall' = [fn |-> name, state |-> state, args |-> args,
                          before |-> fun, ret |-> result.ret]
        /\ calls' = calls + 1
        /\ UNCHANGED <<aliasVars, trackerVars, distVars, bitVars, profiled_fixnum, cfuncs, lookupCall, prevLookup>>

InlineNext == Inline

SpecInline == InlineInit /\ [][InlineNext]_vars

(***************************************************************************)
(* Specializers: properties                                                *)
(***************************************************************************)
Specialized == inlineCall.fn # "none" /\ inlineCall.ret.some
Declined == inlineCall.fn # "none" /\ ~inlineCall.ret.some

\* the positions of the instructions the last call appended
AppendedAt == (Len(inlineCall.before) + 1) .. Len(fun)

IsPrimitive(insn) == insn.op \in FixnumArithmetic \cup FixnumComparison

\* the arithmetic and comparison operators of the catalog, each with the
\* primitive of that operator
OperatorPrimitive ==
    { <<"Integer", "+", "FixnumAdd">>, <<"Integer", "-", "FixnumSub">>,
      <<"Integer", "*", "FixnumMult">>, <<"Integer", "/", "FixnumDiv">>,
      <<"Integer", "%", "FixnumMod">>, <<"Integer", "==", "FixnumEq">>,
      <<"Integer", "<", "FixnumLt">>, <<"Integer", "<=", "FixnumLe">>,
      <<"Integer", ">", "FixnumGt">>, <<"Integer", ">=", "FixnumGe">>,
      <<"BasicObject", "!=", "FixnumNeq">> }

InstalledFor(m) == cfuncs[cfunc_of(m[1], m[2])].inline

\* C4: when basicobject_neq specializes, the instructions it appended hold a
\* patch point on the redefinition of Integer#== and one on the redefinition
\* of Integer#!=, both before the FixnumNeq.
C4_NeqPatchPointsOnEqAndNeq ==
    (Specialized /\ inlineCall.fn = "basicobject_neq") =>
        \E k \in AppendedAt :
            /\ fun[k].op = "FixnumNeq"
            /\ \E i \in AppendedAt :
                  /\ i < k
                  /\ fun[i] = PatchPoint(BOPRedefined("INTEGER_REDEFINED_OP_FLAG", "BOP_EQ"))
            /\ \E j \in AppendedAt :
                  /\ j < k
                  /\ fun[j] = PatchPoint(BOPRedefined("INTEGER_REDEFINED_OP_FLAG", "BOP_NEQ"))

\* C5: when the specializer installed for an arithmetic or comparison
\* operator specializes, it appends exactly one primitive, the one of that
\* operator; and no two of these operators have the same specializer.
C5_OperatorGetsItsOwnPrimitive ==
    Specialized =>
        \A m \in OperatorPrimitive :
            InstalledFor(m) = inlineCall.fn =>
                /\ \E k \in AppendedAt :
                      /\ fun[k].op = m[3]
                      /\ \A j \in AppendedAt : IsPrimitive(fun[j]) => j = k
                /\ \A n \in OperatorPrimitive :
                      InstalledFor(n) = InstalledFor(m) => n = m

\* C6: a specializer that returns none leaves the function's instructions
\* exactly as they were before the call.
C6_DeclineLeavesFunctionUnchanged ==
    Declined => fun = inlineCall.before

\* C6 witness: basicobject_neq declining two operands that are not likely
\* fixnums
C6_Witness ==
    /\ Declined
    /\ inlineCall.fn = "basicobject_neq"
    /\ Len(inlineCall.args) = 2
    /\ fun = inlineCall.before

\* ---------------------------------------------------------------------------
\* BitSet (bitset.rs)
\* ---------------------------------------------------------------------------

\* type Entry = u128: the number of bits of one storage word.
Entry_BITS == 128

\* A word of storage is the set of its bit positions that are 1.
BitSet(storage, num_bits) == [storage |-> storage, num_bits |-> num_bits]

\* BitSet::with_capacity: num_bits / Entry_BITS + 1 zeroed words.
with_capacity(num_bits) ==
    LET num_entries == (num_bits \div Entry_BITS) + 1
    IN  BitSet([i \in 1 .. num_entries |-> {}], num_bits)

\* The outcome of a call that panicked: the set is left as it was.
Panic(set) == [set |-> set, panicked |-> TRUE]

Return(set, ret) == [set |-> set, ret |-> ret, panicked |-> FALSE]

\* BitSet::insert with the word index dropped: every bit goes to the first
\* storage word.
insert_FirstWordOnly(set, idx, debug) ==
    IF debug /\ ~(idx < set.num_bits) THEN Panic(set)
    ELSE LET bit_idx == idx % Entry_BITS
         IN  Return([set EXCEPT !.storage[1] = @ \cup {bit_idx}],
                    bit_idx \notin set.storage[1])

\* BitSet::insert.  debug_assert! is only compiled into builds with debug
\* assertions; indexing storage past its length panics in every build.
insert(set, idx, debug) ==
    IF debug /\ ~(idx < set.num_bits) THEN Panic(set)
    ELSE LET entry_idx == idx \div Entry_BITS
             bit_idx == idx % Entry_BITS
         IN  IF entry_idx >= Len(set.storage) THEN Panic(set)
             ELSE LET newly_inserted == bit_idx \notin set.storage[entry_idx + 1]
                  IN  Return([set EXCEPT !.storage[entry_idx + 1] = @ \cup {bit_idx}],
                             newly_inserted)

\* BitSet::get
get(set, idx, debug) ==
    IF debug /\ ~(idx < set.num_bits) THEN Panic(set)
    ELSE LET entry_idx == idx \div Entry_BITS
             bit_idx == idx % Entry_BITS
         IN  IF entry_idx >= Len(set.storage) THEN Panic(set)
             ELSE Return(set, bit_idx \in set.storage[entry_idx + 1])

\* The loop of intersect_with from word i on, with the last word's verdict
\* overwriting `changed` instead of accumulating into it.
RECURSIVE intersect_from_ChangedOverwritten(_, _, _, _)
intersect_from_ChangedOverwritten(storage, other_storage, i, changed) ==
    IF i > Len(storage) THEN [storage |-> storage, changed |-> changed]
    ELSE LET before == storage[i]
             after == before \cap other_storage[i]
         IN  intersect_from_ChangedOverwritten([storage EXCEPT ![i] = after],
                                               other_storage, i + 1,
                                               after # before)

\* The loop of intersect_with from word i on: self.storage[i] &= other.storage[i]
\* and changed |= self.storage[i] != before.
RECURSIVE intersect_from(_, _, _, _)
intersect_from(storage, other_storage, i, changed) ==
    IF i > Len(storage) THEN [storage |-> storage, changed |-> changed]
    ELSE LET before == storage[i]
             after == before \cap other_storage[i]
         IN  intersect_from([storage EXCEPT ![i] = after], other_storage, i + 1,
                            changed \/ (after # before))

\* BitSet::intersect_with.  assert_eq! is kept in every build.
intersect_with(set, other_set) ==
    IF set.num_bits # other_set.num_bits THEN Panic(set)
    ELSE LET r == intersect_from(set.storage, other_set.storage, 1, FALSE)
         IN  Return([set EXCEPT !.storage = r.storage], r.changed)

\* -------- the BitSet under calls --------

\* Capacities: the empty set, one word, and a set that needs a second word.
CapacityDomain == {0, 2, 129}

\* Indexes: in the first word, at the start of the second, and past it.
IndexDomain == {0, 1, 2, 128, 256}

Panicked == bitCall.fn # "none" /\ bitCall.panicked

BitInit ==
    /\ aliasCall = NoCall
    /\ TrackerIdle
    /\ DistIdle
    /\ InlineIdle
    /\ \E n \in CapacityDomain : left_set = with_capacity(n)
    /\ \E n \in CapacityDomain : right_set = with_capacity(n)
    /\ debug_assertions \in BOOLEAN
    /\ bitCall = NoCall

BitCallRecord(fn, idx, r) ==
    [fn |-> fn, idx |-> idx, left_before |-> left_set, right_before |-> right_set,
     panicked |-> r.panicked, ret |-> IF r.panicked THEN FALSE ELSE r.ret]

\* left.insert(idx)
InsertLeft ==
    /\ ~Panicked
    /\ \E idx \in IndexDomain :
        LET r == insert(left_set, idx, debug_assertions)
        IN  /\ left_set' = r.set
            /\ bitCall' = BitCallRecord("insert_left", idx, r)
    /\ UNCHANGED <<aliasVars, trackerVars, distVars, inlineVars, right_set, debug_assertions>>

\* right.insert(idx)
InsertRight ==
    /\ ~Panicked
    /\ \E idx \in IndexDomain :
        LET r == insert(right_set, idx, debug_assertions)
        IN  /\ right_set' = r.set
            /\ bitCall' = BitCallRecord("insert_right", idx, r)
    /\ UNCHANGED <<aliasVars, trackerVars, distVars, inlineVars, left_set, debug_assertions>>

\* left.get(idx)
Get ==
    /\ ~Panicked
    /\ \E idx \in IndexDomain :
        LET r == get(left_set, idx, debug_assertions)
        IN  bitCall' = BitCallRecord("get", idx, r)
    /\ UNCHANGED <<aliasVars, trackerVars, distVars, inlineVars, left_set, right_set, debug_assertions>>

\* left.intersect_with(&right)
IntersectWith ==
    /\ ~Panicked
    /\ LET r == intersect_with(left_set, right_set)
       IN  /\ left_set' = r.set
           /\ bitCall' = BitCallRecord("intersect_with", 0, r)
    /\ UNCHANGED <<aliasVars, trackerVars, distVars, inlineVars, right_set, debug_assertions>>

BitNext == InsertLeft \/ InsertRight \/ Get \/ IntersectWith

SpecBits == BitInit /\ [][BitNext]_vars

\* -------- BitSet: properties --------

\* Bit k of a set, read off its storage.
Bit(set, k) ==
    /\ (k \div Entry_BITS) < Len(set.storage)
    /\ (k % Entry_BITS) \in set.storage[(k \div Entry_BITS) + 1]

Intersected == bitCall.fn = "intersect_with" /\ ~bitCall.panicked

\* Every bit position the storage of a set of the modelled capacities can hold.
StoredPositions(set) == 0 .. (Len(set.storage) * Entry_BITS - 1)

\* C10: after left.intersect_with(right) on two sets of one capacity n, every
\* bit k < n of left is (left's bit k before) AND (right's bit k), right is as
\* it was, and the call returned true exactly when a bit held by left changed,
\* so false when left held no bit that right lacked.  The bits a set holds are
\* those of its storage words; for a set filled by inserts below n they are
\* the bits below n.
C10_IntersectWith ==
    Intersected =>
        /\ bitCall.left_before.num_bits = bitCall.right_before.num_bits
        /\ left_set.num_bits = bitCall.left_before.num_bits
        /\ \A k \in 0 .. (left_set.num_bits - 1) :
            Bit(left_set, k) = (Bit(bitCall.left_before, k) /\ Bit(bitCall.right_before, k))
        /\ right_set = bitCall.right_before
        /\ bitCall.ret =
            (\E k \in StoredPositions(left_set) : Bit(left_set, k) # Bit(bitCall.left_before, k))
        /\ (\A k \in StoredPositions(left_set) :
                Bit(bitCall.left_before, k) => Bit(bitCall.right_before, k))
            => ~bitCall.ret

\* C10 witness: an intersection over two-word sets that cleared a bit of the
\* first word, kept a shared bit of the second word and returned true.
C10_Witness ==
    /\ Intersected
    /\ left_set.num_bits = 129
    /\ Bit(bitCall.left_before, 0) /\ ~Bit(right_set, 0) /\ ~Bit(left_set, 0)
    /\ Bit(bitCall.left_before, 128) /\ Bit(right_set, 128) /\ Bit(left_set, 128)
    /\ bitCall.ret

InsertedLeft == bitCall.fn = "insert_left" /\ ~bitCall.panicked

\* What insert(idx) promises of a set, given the set before the call and the
\* value returned.
InsertContract(before, after, idx, ret) ==
    /\ ret = ~Bit(before, idx)
    /\ Bit(after, idx)
    /\ \A j \in StoredPositions(before) \ {idx} : Bit(after, j) = Bit(before, j)
    /\ after.num_bits = before.num_bits
    /\ LET g == get(after, idx, debug_assertions)
       IN  ~g.panicked /\ g.ret

\* C11: insert(i) with i below the capacity returns true exactly when bit i
\* was clear before the call, get(i) is true afterwards and every other bit,
\* in whichever storage word, keeps its value; the other set is untouched.
C11_InsertInRange ==
    /\ (bitCall.fn = "insert_left" /\ bitCall.idx < bitCall.left_before.num_bits) =>
          /\ ~bitCall.panicked
          /\ InsertContract(bitCall.left_before, left_set, bitCall.idx, bitCall.ret)
          /\ right_set = bitCall.right_before
    /\ (bitCall.fn = "insert_right" /\ bitCall.idx < bitCall.right_before.num_bits) =>
          /\ ~bitCall.panicked
          /\ InsertContract(bitCall.right_before, right_set, bitCall.idx, bitCall.ret)
          /\ left_set = bitCall.left_before

\* C11 witness: index 128 newly inserted into the second storage word of a
\* set that already holds bits 0 and 1 of its first word
C11_Witness ==
    /\ InsertedLeft
    /\ bitCall.idx = 128
    /\ bitCall.ret
    /\ Bit(bitCall.left_before, 0) /\ Bit(bitCall.left_before, 1)
    /\ ~Bit(bitCall.left_before, 128)
    /\ Bit(left_set, 0) /\ Bit(left_set, 1) /\ Bit(left_set, 128)

SetsUntouched == left_set = bitCall.left_before /\ right_set = bitCall.right_before

\* C12: a precondition violation panics and changes nothing: get(i) or
\* insert(i) with i at or above the capacity of its set, and intersect_with
\* between sets of different capacity.
C12_PreconditionViolationPanics ==
    /\ ( /\ bitCall.fn \in {"insert_left", "get"}
         /\ bitCall.idx >= bitCall.left_before.num_bits )
       => (bitCall.panicked /\ SetsUntouched)
    /\ ( /\ bitCall.fn = "insert_right"
         /\ bitCall.idx >= bitCall.right_before.num_bits )
       => (bitCall.panicked /\ SetsUntouched)
    /\ ( /\ bitCall.fn = "intersect_with"
         /\ bitCall.left_before.num_bits # bitCall.right_before.num_bits )
       => (bitCall.panicked /\ SetsUntouched)

\* -------- Distribution: what observe keeps --------

\* The distinct items of a sequence, in order of first occurrence.
RECURSIVE Distinct(_)
Distinct(seq) ==
    IF seq = <<>> THEN <<>>
    ELSE LET front == Distinct(SubSeq(seq, 1, Len(seq) - 1))
             last == seq[Len(seq)]
         IN  IF \E k \in 1 .. Len(front) : front[k] = last
             THEN front
             ELSE Append(front, last)

\* The number of observations of an item.
Occurrences(seq, item) == Cardinality({k \in 1 .. Len(seq) : seq[k] = item})

HasBucket(item) == \E k \in 1 .. Len(buckets) : buckets[k] = item

Min(a, b) == IF a <= b THEN a ELSE b

\* C13: after any observe calls on a Distribution of capacity K, buckets and
\* counts have one length of at most K; the buckets are distinct and are the
\* first min(K, number of distinct items) distinct items in order of first
\* observation; each count is the number of observations of its bucket's
\* item; the overflow counter is the number of observations of items without
\* a bucket; counts and overflow add up to the number of observations.
C13_ObserveKeepsBuckets ==
    /\ Len(buckets) = Len(counts)
    /\ Len(buckets) <= max_num_buckets
    /\ \A i, j \in 1 .. Len(buckets) : buckets[i] = buckets[j] => i = j
    /\ buckets = SubSeq(Distinct(observed), 1,
                        Min(max_num_buckets, Len(Distinct(observed))))
    /\ \A k \in 1 .. Len(buckets) : counts[k] = Occurrences(observed, buckets[k])
    /\ other = Cardinality({k \in 1 .. Len(observed) : ~HasBucket(observed[k])})
    /\ Sum(counts) + other = Len(observed)

\* C13 witness: capacity 2, three distinct items observed, a bucket observed
\* again after the first overflow
C13_Witness ==
    /\ max_num_buckets = 2
    /\ Len(buckets) = 2
    /\ Len(Distinct(observed)) = 3
    /\ other >= 1
    /\ \E k \in 1 .. Len(observed) :
        /\ ~HasBucket(observed[k])
        /\ \E m \in (k + 1) .. Len(observed) : observed[m] = buckets[2]

\* -------- Distribution: most_common and the overflow counter --------

IsMostCommonCall == distCall.fn = "most_common"

\* The answer the buckets and counts alone determine: none without a bucket,
\* otherwise the last bucket of the highest count.
AnswerFromBuckets(bs, cs) ==
    IF Len(bs) = 0 THEN None
    ELSE Some(bs[CHOOSE k \in 1 .. Len(cs) :
                    /\ \A j \in 1 .. Len(cs) : cs[j] <= cs[k]
                    /\ \A j \in (k + 1) .. Len(cs) : cs[j] < cs[k]])

\* C14: most_common returns none exactly when there is no bucket, its answer
\* is the one the buckets and counts alone determine whatever the overflow
\* counter is, and the call leaves buckets, counts, overflow counter and
\* capacity as they were.
C14_MostCommonIgnoresOther ==
    IsMostCommonCall =>
        /\ (distCall.ret = None) = (Len(buckets) = 0)
        /\ distCall.ret = AnswerFromBuckets(buckets, counts)
        /\ distCall.before = <<buckets, counts, other, max_num_buckets>>

\* C14 witness: most_common answers with a bucket although the overflow
\* counter exceeds every bucket's count
C14_Witness ==
    /\ IsMostCommonCall
    /\ Len(buckets) > 0
    /\ \A k \in 1 .. Len(counts) : other > counts[k]
    /\ distCall.ret # None

\* ---------------------------------------------------------------------------
\* Annotations::get_cfunc_properties (cruby_methods.rs)
\* ---------------------------------------------------------------------------

VM_METHOD_TYPE_CFUNC == "VM_METHOD_TYPE_CFUNC"

VM_METHOD_TYPE_ISEQ == "VM_METHOD_TYPE_ISEQ"

\* A callable method entry: the type of its definition and its body, which
\* for a C method is the identity of the native function.
MethodEntry(class, method_name, def_type, body) ==
    [class |-> class, method_name |-> method_name, def_type |-> def_type, body |-> body]

\* the stock method entry of a cataloged method
rb_method_entry_at(class, method_name) ==
    MethodEntry(class, method_name, VM_METHOD_TYPE_CFUNC, cfunc_of(class, method_name))

\* get_cfunc_properties answering with all-false properties for a native
\* function that was never registered.
get_cfunc_properties_DefaultWhenMissing(annotations, method) ==
    IF VM_METHOD_TYPE_CFUNC # method.def_type THEN None
    ELSE IF method.body \in DOMAIN annotations
         THEN Some(annotations[method.body])
         ELSE Some(FnProperties(types_BasicObject, "no_inline", {}))

\* Annotations::get_cfunc_properties
get_cfunc_properties(annotations, method) ==
    IF VM_METHOD_TYPE_CFUNC # method.def_type THEN None
    ELSE IF method.body \in DOMAIN annotations
         THEN Some(annotations[method.body])
         ELSE None

\* -------- the registry under lookups --------

CatalogMethods ==
    {rb_method_entry_at(Catalog[k].class, Catalog[k].method_name) : k \in 1 .. Len(Catalog)}

\* C methods outside the catalog
UncatalogedCMethods ==
    { MethodEntry("Integer", "**", VM_METHOD_TYPE_CFUNC, "rb_int_pow"),
      MethodEntry("Array", "push", VM_METHOD_TYPE_CFUNC, "rb_ary_push_m") }

\* methods defined in Ruby, one of them a redefinition of a cataloged method
RubyMethods ==
    { MethodEntry("Integer", "+", VM_METHOD_TYPE_ISEQ, "iseq_1"),
      MethodEntry("Object", "foo", VM_METHOD_TYPE_ISEQ, "iseq_2") }

MethodDomain == CatalogMethods \cup UncatalogedCMethods \cup RubyMethods

RegistryInit ==
    /\ aliasCall = NoCall
    /\ TrackerIdle
    /\ DistIdle
    /\ BitIdle
    /\ fun = <<>>
    /\ profiled_fixnum = {}
    /\ cfuncs = init
    /\ inlineCall = NoCall
    /\ calls = 0
    /\ lookupCall = NoCall
    /\ prevLookup = NoCall

\* annotations.get_cfunc_properties(method)
GetCfuncProperties ==
    \E method \in MethodDomain :
        /\ lookupCall' = [fn |-> "get_cfunc_properties", method |-> method,
                          before |-> cfuncs,
                          ret |-> get_cfunc_properties(cfuncs, method)]
        /\ prevLookup' = lookupCall
        /\ UNCHANGED <<aliasVars, trackerVars, distVars, bitVars, fun,
                       profiled_fixnum, cfuncs, inlineCall, calls>>

RegistryNext == GetCfuncProperties

SpecRegistry == RegistryInit /\ [][RegistryNext]_vars

\* -------- the registry: properties --------

IsLookup(call) == call.fn = "get_cfunc_properties"

\* the native function identities the catalog registers
RegisteredIdentities ==
    {cfunc_of(Catalog[k].class, Catalog[k].method_name) : k \in 1 .. Len(Catalog)}

\* C15: a lookup answers none for a method that is not a C function or whose
\* native function was never registered; for the method of a catalog entry
\* it answers the properties written on that entry's line; it leaves the
\* registry as init built it; and two lookups of one native function
\* identity get one answer.
C15_LookupAnswers ==
    IsLookup(lookupCall) =>
        LET method == lookupCall.method IN
        /\ ( \/ method.def_type # VM_METHOD_TYPE_CFUNC
             \/ method.body \notin RegisteredIdentities )
           => lookupCall.ret = None
        /\ \A k \in 1 .. Len(Catalog) :
              method = rb_method_entry_at(Catalog[k].class, Catalog[k].method_name)
              => lookupCall.ret = Some(Catalog[k].props)
        /\ cfuncs = lookupCall.before
        /\ cfuncs = init
        /\ ( /\ IsLookup(prevLookup)
             /\ prevLookup.method.def_type = method.def_type
             /\ prevLookup.method.body = method.body )
           => prevLookup.ret = lookupCall.ret

\* C15 witness: Array#size looked up after Array#length, the two sharing
\* one native function, answered with the elidable properties of its line
C15_Witness ==
    /\ IsLookup(lookupCall) /\ IsLookup(prevLookup)
    /\ prevLookup.method.method_name = "length"
    /\ lookupCall.method.method_name = "size"
    /\ lookupCall.ret.some
    /\ lookupCall.ret.value.elidable
    /\ lookupCall.ret.value.inline = "no_inline"

\* -------- Specializers: guards before the primitive --------

\* the arithmetic and comparison specializers
FixnumSpecializers == Specializers \ {"no_inline", "kernel_itself"}

\* the operand in place i of the last call, coerced: itself when its static
\* type before the call is Fixnum, else the result of a guard on it that the
\* call appended with the call's anchor
IsCoerced(i, operand) ==
    LET arg == inlineCall.args[i] IN
    IF is_a(inlineCall.before, arg, types_Fixnum)
    THEN operand = arg
    ELSE /\ operand + 1 \in AppendedAt
         /\ operand + 1 < Len(fun)
         /\ fun[operand + 1] = GuardType(arg, types_Fixnum, inlineCall.state)

\* C16: when an arithmetic or comparison specializer specializes, the last
\* instruction appended is the one primitive and is the value returned;
\* everything appended before it is a guard or a patch point; an operand
\* whose static type is not Fixnum gets a GuardType(Fixnum) with the call's
\* anchor before the primitive; and the primitive's operands are the
\* coerced values, each of static type Fixnum.
C16_GuardsThenPrimitive ==
    (Specialized /\ inlineCall.fn \in FixnumSpecializers) =>
        LET primitive == fun[Len(fun)]
            guards == {p \in AppendedAt : fun[p].op = "GuardType"}
            unguarded == {i \in 1 .. 2 :
                            ~is_a(inlineCall.before, inlineCall.args[i], types_Fixnum)}
        IN  /\ Len(inlineCall.args) = 2
            /\ Len(fun) > Len(inlineCall.before)
            /\ SubSeq(fun, 1, Len(inlineCall.before)) = inlineCall.before
            /\ IsPrimitive(primitive)
            /\ inlineCall.ret = Some(Len(fun) - 1)
            /\ \A p \in AppendedAt \ {Len(fun)} :
                  fun[p].op \in {"GuardType", "PatchPoint"}
            /\ Cardinality(guards) = Cardinality(unguarded)
            /\ IsCoerced(1, primitive.left)
            /\ IsCoerced(2, primitive.right)
            /\ is_a(fun, primitive.left, types_Fixnum)
            /\ is_a(fun, primitive.right, types_Fixnum)
            /\ primitive.op \in FixnumArithmetic => primitive.state = inlineCall.state

\* C16 witness: fixnum_add on a Fixnum operand and a profiled operand of a
\* wider type: one guard, then FixnumAdd over the operand and the guard
C16_Witness ==
    /\ Specialized
    /\ inlineCall.fn = "fixnum_add"
    /\ is_a(inlineCall.before, inlineCall.args[1], types_Fixnum)
    /\ ~is_a(inlineCall.before, inlineCall.args[2], types_Fixnum)
    /\ Len(fun) = Len(inlineCall.before) + 2
    /\ fun[Len(fun) - 1].op = "GuardType"
    /\ fun[Len(fun)].op = "FixnumAdd"
    /\ fun[Len(fun)].right = Len(fun) - 2

====
